---- MODULE Spec2Model ----
(***************************************************************************)
(* scrapy_ssdb/queue.py: per-spider FIFO, LIFO and priority queues kept in *)
(* an SSDB server.  The server is the only shared state: a list namespace  *)
(* (qpush_front, qpop_back, qpop_front, qsize, qclear), a sorted-set       *)
(* namespace (zset, zpop_front, zsize) and a hash namespace (hset, hget,   *)
(* hdel).  Every server call is atomic; a queue method that makes several  *)
(* calls is one step per call.                                             *)
(***************************************************************************)
EXTENDS Integers, Sequences, FiniteSets

\* ------------------------------------------------------------------ bounds
\* Push calls started in one behaviour.
MaxPush == 2

\* The worker processes sharing the server.
Workers == {1, 2}
\* The fingerprints and priorities requests are drawn from: two requests may
\* share a fingerprint and differ in priority, or the other way round.
Fps == {1, 2}
Priorities == {1, 5}
\* pop's timeout argument.
Timeouts == {0, 1}

\* A request: what request_fingerprint sees of it (fp) and its priority.
Requests == [fp : Fps, pri : Priorities]

\* Queue keys, one per (spider, discipline).
FifoKeys == {"fifo"}
LifoKeys == {"lifo"}
PriorityKeys == {"pq1", "pq2"}
Keys == FifoKeys \cup LifoKeys \cup PriorityKeys

\* TABLE_REQUEST_BODIES is one hash shared by every priority queue.
TABLE_REQUEST_BODIES == "blog_crawler:request_bodies"

\* ------------------------------------------------------------------ codec
\* serializer.dumps(request_to_dict(request)): the byte string of a request.
_encode_request(request) == <<request.fp, request.pri>>

\* What the client hands back for a field that does not exist (None).
NoData == <<>>

NoRequest == [fp |-> 0, pri |-> 0]

\* What the dumps of another serializer writes for the request (the
\* serializer is an argument of Base.__init__; queue objects built with
\* different serializers can share a key).
dumps_other(request) == <<request.fp, request.pri, 0>>

\* serializer.loads raises on anything that is not a pickled request: on
\* None and on bytes another serializer wrote.
DecodeRaises(encoded_request) == Len(encoded_request) # 2

_decode_request(encoded_request) ==
    IF DecodeRaises(encoded_request) THEN NoRequest
    ELSE [fp |-> encoded_request[1], pri |-> encoded_request[2]]

request_fingerprint(request) == request.fp

\* (variant: the priority is not negated)
ScoreNotNegated(request) == request.pri

\* PriorityQueue.push: score = -request.priority
Score(request) == -request.pri

\* ------------------------------------------------------------ the server
\* List namespace.  A pop answers a list of at most one value.
qsize(q, key) == Len(q[key])

\* (variant: the value replaces the list)
qpush_front_replace(q, key, value) == [q EXCEPT ![key] = <<value>>]

qpush_front(q, key, value) == [q EXCEPT ![key] = <<value>> \o @]

\* (variant: takes the head of the list, the end push adds to)
qpop_back_head(q, key) ==
    IF q[key] = <<>> THEN [reply |-> <<>>, q |-> q]
    ELSE [reply |-> <<q[key][1]>>, q |-> [q EXCEPT ![key] = Tail(@)]]

qpop_back(q, key) ==
    IF q[key] = <<>> THEN [reply |-> <<>>, q |-> q]
    ELSE [reply |-> <<q[key][Len(q[key])]>>,
          q |-> [q EXCEPT ![key] = SubSeq(@, 1, Len(@) - 1)]]

\* (variant: takes the tail of the list)
qpop_front_tail(q, key) ==
    IF q[key] = <<>> THEN [reply |-> <<>>, q |-> q]
    ELSE [reply |-> <<q[key][Len(q[key])]>>,
          q |-> [q EXCEPT ![key] = SubSeq(@, 1, Len(@) - 1)]]

qpop_front(q, key) ==
    IF q[key] = <<>> THEN [reply |-> <<>>, q |-> q]
    ELSE [reply |-> <<q[key][1]>>, q |-> [q EXCEPT ![key] = Tail(@)]]

\* (variant: deletes every list)
qclear_all(q, key) == [k \in DOMAIN q |-> <<>>]

\* qclear deletes the list of that name; the sorted set and the hash of the
\* same or any other name are other namespaces, which it does not touch.
qclear(q, key) == [q EXCEPT ![key] = <<>>]

\* Sorted-set namespace: a set of (member, score), one entry per member.
zsize(z, key) == Cardinality(z[key])

\* (variant: adds an entry and leaves the member's old entry in the set)
zset_add(z, key, member, score) ==
    [z EXCEPT ![key] = @ \cup {[member |-> member, score |-> score]}]

zset(z, key, member, score) ==
    [z EXCEPT ![key] = {e \in @ : e.member # member}
                         \cup {[member |-> member, score |-> score]}]

\* The entry zpop_front takes: lowest score, then lowest member.
ZFront(zs) ==
    CHOOSE e \in zs : \A o \in zs :
        \/ e.score < o.score
        \/ e.score = o.score /\ e.member <= o.member

\* (variant: answers the front entry and leaves it in the set)
zpop_front_keep(z, key) ==
    IF z[key] = {} THEN [reply |-> <<>>, z |-> z]
    ELSE [reply |-> <<ZFront(z[key]).member, ZFront(z[key]).score>>, z |-> z]

\* zpop_front(key, 1) answers [member, score], or an empty list.
zpop_front(z, key) ==
    IF z[key] = {} THEN [reply |-> <<>>, z |-> z]
    ELSE [reply |-> <<ZFront(z[key]).member, ZFront(z[key]).score>>,
          z |-> [z EXCEPT ![key] = @ \ {ZFront(@)}]]

\* Hash namespace: the one table.
\* (variant: a field that exists keeps its value)
hset_keep(h, field, value) ==
    IF h[field] # NoData THEN h ELSE [h EXCEPT ![field] = value]

hset(h, field, value) == [h EXCEPT ![field] = value]

\* (variant: the field is never found)
hget_missing(h, field) == NoData

hget(h, field) == h[field]

\* (variant: deletes nothing)
hdel_nothing(h, field) == h

hdel(h, field) == [h EXCEPT ![field] = NoData]

\* ------------------------------------------------------------------ state
VARIABLES
    queue,      \* server: list namespace, key -> sequence of byte strings
    sorted,     \* server: sorted-set namespace, key -> set of entries
    bodies,     \* server: the hash TABLE_REQUEST_BODIES, field -> byte string
    pc,         \* per worker: where it is in the method it is running
    self_key,   \* per worker: self.key of the queue object it is calling
    data,       \* per worker: PriorityQueue.push / pop local `data`
    fingerprint,\* per worker: PriorityQueue.push / pop local `fingerprint`
    score,      \* per worker: PriorityQueue.push / pop local `score`
    ret,        \* per worker: its last finished call and what it returned
                \* (NoCall before its first call and while a call is running)
    hist        \* history: per key, the calls that took effect, in order

vars == <<queue, sorted, bodies, pc, self_key, data, fingerprint, score,
          ret, hist>>

store == <<queue, sorted, bodies>>
locals == <<self_key, data, fingerprint, score>>

NoKey == ""

\* A finished call: the method, and the request, None or integer it
\* returned, or that it raised.
Returned(op, request) ==
    [op |-> op, kind |-> "request", request |-> request, n |-> 0]
ReturnedNone(op) ==
    [op |-> op, kind |-> "none", request |-> NoRequest, n |-> 0]
ReturnedInt(op, n) ==
    [op |-> op, kind |-> "int", request |-> NoRequest, n |-> n]
Raised(op) ==
    [op |-> op, kind |-> "error", request |-> NoRequest, n |-> 0]
NoCall == ReturnedNone("nocall")

\* `return self._decode_request(data)`: the request, or loads raises.
DecodeResult(encoded_request) ==
    IF DecodeRaises(encoded_request) THEN Raised("pop")
    ELSE Returned("pop", _decode_request(encoded_request))

\* (variant: data[0] is read without the `if data:` test)
PopResultUnchecked(reply) ==
    IF Len(reply) > 0 THEN DecodeResult(reply[1]) ELSE Raised("pop")

\* FifoQueue.pop / LifoQueue.pop: `if data: return
\* self._decode_request(data[0])`, else the method returns None.
PopResult(reply) ==
    IF Len(reply) > 0 THEN DecodeResult(reply[1]) ELSE ReturnedNone("pop")

Event(op, request) == [op |-> op, request |-> request]

Init ==
    /\ queue = [k \in Keys |-> <<>>]
    /\ sorted = [k \in Keys |-> {}]
    /\ bodies = [f \in Fps |-> NoData]
    /\ pc = [w \in Workers |-> "idle"]
    /\ self_key = [w \in Workers |-> NoKey]
    /\ data = [w \in Workers |-> NoData]
    /\ fingerprint = [w \in Workers |-> 0]
    /\ score = [w \in Workers |-> 0]
    /\ ret = [w \in Workers |-> NoCall]
    /\ hist = [k \in Keys |-> <<>>]

\* The history: a push is recorded when its first server call is made, a
\* pop when it returns a request, a clear when it deletes something.
\* The calls `op` in history h.
CountOps(h, op) == Cardinality({i \in DOMAIN h : h[i].op = op})

\* The push calls started so far, over every key.
Pushes == {<<k, i>> \in Keys \X (1..MaxPush) :
              i <= CountOps(hist[k], "push")}

MayPush == Cardinality(Pushes) < MaxPush

Record(key, op, request) ==
    hist' = [hist EXCEPT ![key] = Append(@, Event(op, request))]

\* A pop enters the history when it returns a request.
RecordPop(key, outcome) ==
    IF outcome.kind = "request" THEN Record(key, "pop", outcome.request)
    ELSE UNCHANGED hist

Return(w, outcome) == ret' = [ret EXCEPT ![w] = outcome]

\* A method's locals die when it returns.
ClearLocals(w) ==
    /\ self_key' = [self_key EXCEPT ![w] = NoKey]
    /\ data' = [data EXCEPT ![w] = NoData]
    /\ fingerprint' = [fingerprint EXCEPT ![w] = 0]
    /\ score' = [score EXCEPT ![w] = 0]

\* ------------------------------------------------------------- Base.clear
\* (variant: clearing a list that does not exist is an error)
Clear_absent_raises(w, key) ==
    /\ pc[w] = "idle"
    /\ queue' = qclear(queue, key)
    /\ Return(w, IF queue[key] = <<>> THEN Raised("clear")
                 ELSE ReturnedNone("clear"))
    /\ IF queue' # queue THEN Record(key, "clear", NoRequest)
       ELSE UNCHANGED hist
    /\ UNCHANGED <<sorted, bodies, pc, locals>>

Clear(w, key) ==
    /\ pc[w] = "idle"
    /\ queue' = qclear(queue, key)
    /\ Return(w, ReturnedNone("clear"))
    /\ IF queue' # queue THEN Record(key, "clear", NoRequest)
       ELSE UNCHANGED hist
    /\ UNCHANGED <<sorted, bodies, pc, locals>>

\* -------------------------------------------------------------- FifoQueue
FifoLen(w, key) ==
    /\ pc[w] = "idle"
    /\ key \in FifoKeys
    /\ Return(w, ReturnedInt("len", qsize(queue, key)))
    /\ UNCHANGED <<store, pc, locals, hist>>

FifoPush(w, key, request) ==
    /\ pc[w] = "idle"
    /\ key \in FifoKeys
    /\ MayPush
    /\ queue' = qpush_front(queue, key, _encode_request(request))
    /\ Return(w, ReturnedNone("push"))
    /\ Record(key, "push", request)
    /\ UNCHANGED <<sorted, bodies, pc, locals>>

FifoPop(w, key, timeout) ==
    /\ pc[w] = "idle"
    /\ key \in FifoKeys
    /\ LET data_ == qpop_back(queue, key)
       IN /\ queue' = data_.q
          /\ Return(w, PopResult(data_.reply))
          /\ RecordPop(key, PopResult(data_.reply))
    /\ UNCHANGED <<sorted, bodies, pc, locals>>

\* -------------------------------------------------------------- LifoQueue
LifoLen(w, key) ==
    /\ pc[w] = "idle"
    /\ key \in LifoKeys
    /\ Return(w, ReturnedInt("len", qsize(queue, key)))
    /\ UNCHANGED <<store, pc, locals, hist>>

LifoPush(w, key, request) ==
    /\ pc[w] = "idle"
    /\ key \in LifoKeys
    /\ MayPush
    /\ queue' = qpush_front(queue, key, _encode_request(request))
    /\ Return(w, ReturnedNone("push"))
    /\ Record(key, "push", request)
    /\ UNCHANGED <<sorted, bodies, pc, locals>>

LifoPop(w, key, timeout) ==
    /\ pc[w] = "idle"
    /\ key \in LifoKeys
    /\ LET data_ == qpop_front(queue, key)
       IN /\ queue' = data_.q
          /\ Return(w, PopResult(data_.reply))
          /\ RecordPop(key, PopResult(data_.reply))
    /\ UNCHANGED <<sorted, bodies, pc, locals>>

\* ---------------------------------------------------------- PriorityQueue
PriorityLen(w, key) ==
    /\ pc[w] = "idle"
    /\ key \in PriorityKeys
    /\ Return(w, ReturnedInt("len", zsize(sorted, key)))
    /\ UNCHANGED <<store, pc, locals, hist>>

\* push, lines 96-100: encode, negate the priority, fingerprint, hset.
PriorityPush_hset(w, key, request) ==
    /\ pc[w] = "idle"
    /\ key \in PriorityKeys
    /\ MayPush
    /\ bodies' = hset(bodies, request_fingerprint(request),
                      _encode_request(request))
    /\ self_key' = [self_key EXCEPT ![w] = key]
    /\ data' = [data EXCEPT ![w] = _encode_request(request)]
    /\ score' = [score EXCEPT ![w] = Score(request)]
    /\ fingerprint' = [fingerprint EXCEPT ![w] = request_fingerprint(request)]
    /\ pc' = [pc EXCEPT ![w] = "push_zset"]
    /\ Record(key, "push", request)
    /\ Return(w, NoCall)
    /\ UNCHANGED <<queue, sorted>>

\* push, line 101: zset, then the method returns.
PriorityPush_zset(w) ==
    /\ pc[w] = "push_zset"
    /\ sorted' = zset(sorted, self_key[w], fingerprint[w], score[w])
    /\ pc' = [pc EXCEPT ![w] = "idle"]
    /\ Return(w, ReturnedNone("push"))
    /\ ClearLocals(w)
    /\ UNCHANGED <<queue, bodies, hist>>

\* pop, lines 108-112: zpop_front; an empty reply returns None.
PriorityPop_zpop_front(w, key, timeout) ==
    /\ pc[w] = "idle"
    /\ key \in PriorityKeys
    /\ LET items == zpop_front(sorted, key).reply
       IN /\ sorted' = zpop_front(sorted, key).z
          /\ IF Len(items) > 0
             THEN /\ fingerprint' = [fingerprint EXCEPT ![w] = items[1]]
                  /\ score' = [score EXCEPT ![w] = items[2]]
                  /\ self_key' = [self_key EXCEPT ![w] = key]
                  /\ pc' = [pc EXCEPT ![w] = "pop_hget"]
                  /\ Return(w, NoCall)
                  /\ UNCHANGED data
             ELSE /\ Return(w, ReturnedNone("pop"))
                  /\ UNCHANGED <<pc, locals>>
    /\ UNCHANGED <<queue, bodies, hist>>

\* pop, line 113: hget.
PriorityPop_hget(w) ==
    /\ pc[w] = "pop_hget"
    /\ data' = [data EXCEPT ![w] = hget(bodies, fingerprint[w])]
    /\ pc' = [pc EXCEPT ![w] = "pop_hdel"]
    /\ UNCHANGED <<store, self_key, fingerprint, score, ret, hist>>

\* (variant: the payload is decoded first and deleted only if that went
\* well)
PriorityPop_decode_before_hdel(w) ==
    /\ pc[w] = "pop_hdel"
    /\ bodies' = IF DecodeRaises(data[w]) THEN bodies
                 ELSE hdel(bodies, fingerprint[w])
    /\ pc' = [pc EXCEPT ![w] = "idle"]
    /\ Return(w, DecodeResult(data[w]))
    /\ RecordPop(self_key[w], DecodeResult(data[w]))
    /\ ClearLocals(w)
    /\ UNCHANGED <<queue, sorted>>

\* pop, lines 114-116: hdel, then decode what hget read and return it.
PriorityPop_hdel(w) ==
    /\ pc[w] = "pop_hdel"
    /\ bodies' = hdel(bodies, fingerprint[w])
    /\ pc' = [pc EXCEPT ![w] = "idle"]
    /\ Return(w, DecodeResult(data[w]))
    /\ RecordPop(self_key[w], DecodeResult(data[w]))
    /\ ClearLocals(w)
    /\ UNCHANGED <<queue, sorted>>

\* ---------------------------------------------------- failed server calls
\* (variant: the error is caught and the method returns as usual)
StoreErrorSuppressed(op) == ReturnedNone(op)

\* A server call that fails (connection, timeout, protocol) raises in the
\* client.  No method of queue.py has a try or a retry: the exception leaves
\* the method at the call.
StoreError(op) == Raised(op)

\* A failed call may or may not have been applied by the server (the
\* request never arrived, or only the reply was lost).
FifoPush_error(w, key, request) ==
    /\ pc[w] = "idle"
    /\ key \in FifoKeys
    /\ Return(w, StoreError("push"))
    /\ MayPush
    /\ \E applied \in BOOLEAN :
           IF applied
           THEN /\ queue' = qpush_front(queue, key, _encode_request(request))
                /\ Record(key, "push", request)
           ELSE UNCHANGED <<queue, hist>>
    /\ UNCHANGED <<sorted, bodies, pc, locals>>

LifoPush_error(w, key, request) ==
    /\ pc[w] = "idle"
    /\ key \in LifoKeys
    /\ Return(w, StoreError("push"))
    /\ MayPush
    /\ \E applied \in BOOLEAN :
           IF applied
           THEN /\ queue' = qpush_front(queue, key, _encode_request(request))
                /\ Record(key, "push", request)
           ELSE UNCHANGED <<queue, hist>>
    /\ UNCHANGED <<sorted, bodies, pc, locals>>

\* push, line 100: hset fails; line 101 is not reached.
PriorityPush_hset_error(w, key, request) ==
    /\ pc[w] = "idle"
    /\ key \in PriorityKeys
    /\ Return(w, StoreError("push"))
    /\ MayPush
    /\ \E applied \in BOOLEAN :
           IF applied
           THEN /\ bodies' = hset(bodies, request_fingerprint(request),
                                  _encode_request(request))
                /\ Record(key, "push", request)
           ELSE UNCHANGED <<bodies, hist>>
    /\ UNCHANGED <<queue, sorted, pc, locals>>

\* push, line 101: zset fails.
PriorityPush_zset_error(w) ==
    /\ pc[w] = "push_zset"
    /\ \E applied \in BOOLEAN :
           IF applied
           THEN sorted' = zset(sorted, self_key[w], fingerprint[w], score[w])
           ELSE UNCHANGED sorted
    /\ pc' = [pc EXCEPT ![w] = "idle"]
    /\ Return(w, StoreError("push"))
    /\ ClearLocals(w)
    /\ UNCHANGED <<queue, bodies, hist>>

PushError(w, keys) ==
    \/ \E key \in keys, request \in Requests :
           FifoPush_error(w, key, request)
    \/ \E key \in keys, request \in Requests :
           LifoPush_error(w, key, request)
    \/ \E key \in keys, request \in Requests :
           PriorityPush_hset_error(w, key, request)
    \/ PriorityPush_zset_error(w)

\* ------------------------------------------------- undecodable payloads
\* push through a queue object on the same key whose serializer is not the
\* popping object's: the same calls, with that serializer's bytes.
FifoPush_other(w, key, request) ==
    /\ pc[w] = "idle"
    /\ key \in FifoKeys
    /\ MayPush
    /\ queue' = qpush_front(queue, key, dumps_other(request))
    /\ Return(w, ReturnedNone("push"))
    /\ Record(key, "push", request)
    /\ UNCHANGED <<sorted, bodies, pc, locals>>

LifoPush_other(w, key, request) ==
    /\ pc[w] = "idle"
    /\ key \in LifoKeys
    /\ MayPush
    /\ queue' = qpush_front(queue, key, dumps_other(request))
    /\ Return(w, ReturnedNone("push"))
    /\ Record(key, "push", request)
    /\ UNCHANGED <<sorted, bodies, pc, locals>>

\* The zset that follows is PriorityPush_zset.
PriorityPush_hset_other(w, key, request) ==
    /\ pc[w] = "idle"
    /\ key \in PriorityKeys
    /\ MayPush
    /\ bodies' = hset(bodies, request_fingerprint(request),
                      dumps_other(request))
    /\ self_key' = [self_key EXCEPT ![w] = key]
    /\ data' = [data EXCEPT ![w] = dumps_other(request)]
    /\ score' = [score EXCEPT ![w] = Score(request)]
    /\ fingerprint' = [fingerprint EXCEPT ![w] = request_fingerprint(request)]
    /\ pc' = [pc EXCEPT ![w] = "push_zset"]
    /\ Record(key, "push", request)
    /\ Return(w, NoCall)
    /\ UNCHANGED <<queue, sorted>>

PushOther(w, keys) ==
    \/ \E key \in keys, request \in Requests :
           FifoPush_other(w, key, request)
    \/ \E key \in keys, request \in Requests :
           LifoPush_other(w, key, request)
    \/ \E key \in keys, request \in Requests :
           PriorityPush_hset_other(w, key, request)

\* ---------------------------------------------------------------- crashes
\* The item an index entry stands for: its fingerprint and, the score being
\* the negated priority, its priority.
IndexedItem(w) == [fp |-> fingerprint[w], pri |-> -score[w]]

\* The process of worker w dies between two server calls of a method.  The
\* method's variables die with it, the server keeps what the calls made so
\* far have written, and a fresh process takes the worker's place.
\* push: after hset (line 100), before zset (line 101).
PriorityPush_crash_before_zset(w) ==
    /\ pc[w] = "push_zset"
    /\ pc' = [pc EXCEPT ![w] = "idle"]
    /\ Record(self_key[w], "crash_push", IndexedItem(w))
    /\ ClearLocals(w)
    /\ UNCHANGED <<store, ret>>

\* pop: after zpop_front (line 108), before hget (line 113).
PriorityPop_crash_before_hget(w) ==
    /\ pc[w] = "pop_hget"
    /\ pc' = [pc EXCEPT ![w] = "idle"]
    /\ Record(self_key[w], "crash_zpop", IndexedItem(w))
    /\ ClearLocals(w)
    /\ UNCHANGED <<store, ret>>

\* pop: after hget (line 113), before hdel (line 114).
PriorityPop_crash_before_hdel(w) ==
    /\ pc[w] = "pop_hdel"
    /\ pc' = [pc EXCEPT ![w] = "idle"]
    /\ Record(self_key[w], "crash_hget", IndexedItem(w))
    /\ ClearLocals(w)
    /\ UNCHANGED <<store, ret>>

Crash(w) ==
    \/ PriorityPush_crash_before_zset(w)
    \/ PriorityPop_crash_before_hget(w)
    \/ PriorityPop_crash_before_hdel(w)

\* ------------------------------------------------------- specifications
ListCall(w, keys) ==
    \/ \E key \in keys : FifoLen(w, key)
    \/ \E key \in keys, request \in Requests : FifoPush(w, key, request)
    \/ \E key \in keys, timeout \in Timeouts : FifoPop(w, key, timeout)
    \/ \E key \in keys : LifoLen(w, key)
    \/ \E key \in keys, request \in Requests : LifoPush(w, key, request)
    \/ \E key \in keys, timeout \in Timeouts : LifoPop(w, key, timeout)

PriorityCall(w, keys) ==
    \/ \E key \in keys, request \in Requests :
           PriorityPush_hset(w, key, request)
    \/ PriorityPush_zset(w)
    \/ \E key \in keys, timeout \in Timeouts :
           PriorityPop_zpop_front(w, key, timeout)
    \/ PriorityPop_hget(w)
    \/ PriorityPop_hdel(w)

\* Workers calling the priority queues concurrently.
Next ==
    \E w \in Workers :
        \/ \E key \in PriorityKeys : Clear(w, key)
        \/ PriorityCall(w, PriorityKeys)

Spec == Init /\ [][Next]_vars

\* Workers calling the list queues concurrently.
NextList ==
    \E w \in Workers :
        \/ \E key \in FifoKeys \cup LifoKeys : Clear(w, key)
        \/ ListCall(w, FifoKeys \cup LifoKeys)

SpecList == Init /\ [][NextList]_vars

\* One caller, every queue: each call runs to its end before the next.
NextSeq ==
    \/ \E key \in Keys : Clear(1, key)
    \/ ListCall(1, Keys)
    \/ PriorityCall(1, Keys)
    \/ \E key \in Keys : PriorityLen(1, key)

SpecSeq == Init /\ [][NextSeq]_vars

\* Two workers popping, once each, from a priority queue that holds one
\* request (the state a finished push leaves).
InitTwoPop ==
    \E key \in PriorityKeys, request \in Requests :
        /\ queue = [k \in Keys |-> <<>>]
        /\ sorted = zset([k \in Keys |-> {}], key,
                         request_fingerprint(request), Score(request))
        /\ bodies = hset([f \in Fps |-> NoData], request_fingerprint(request),
                         _encode_request(request))
        /\ pc = [w \in Workers |-> "idle"]
        /\ self_key = [w \in Workers |-> NoKey]
        /\ data = [w \in Workers |-> NoData]
        /\ fingerprint = [w \in Workers |-> 0]
        /\ score = [w \in Workers |-> 0]
        /\ ret = [w \in Workers |-> NoCall]
        /\ hist = [k \in Keys |-> IF k = key THEN <<Event("push", request)>>
                                  ELSE <<>>]

NextTwoPop ==
    \E w \in Workers :
        \/ /\ ret[w] = NoCall
           /\ \E key \in PriorityKeys, timeout \in Timeouts :
                  /\ hist[key] # <<>>
                  /\ PriorityPop_zpop_front(w, key, timeout)
        \/ PriorityPop_hget(w)
        \/ PriorityPop_hdel(w)

SpecTwoPop == InitTwoPop /\ [][NextTwoPop]_vars

\* One caller, every queue, and server calls of push that may fail.
NextErr ==
    \/ ListCall(1, Keys)
    \/ PriorityCall(1, Keys)
    \/ PushError(1, Keys)

SpecErr == Init /\ [][NextErr]_vars

\* One caller, every queue; a push may come from a queue object with
\* another serializer.
NextDecode ==
    \/ \E key \in Keys, request \in Requests :
           \/ FifoPush(1, key, request)
           \/ LifoPush(1, key, request)
    \/ \E key \in Keys, timeout \in Timeouts :
           \/ FifoPop(1, key, timeout)
           \/ LifoPop(1, key, timeout)
    \/ PriorityCall(1, Keys)
    \/ PushOther(1, Keys)

SpecDecode == Init /\ [][NextDecode]_vars

\* Workers calling the priority queues concurrently, any of which may
\* crash in the middle of a push or pop.
NextCrash ==
    \E w \in Workers :
        \/ PriorityCall(w, PriorityKeys)
        \/ Crash(w)

SpecCrash == Init /\ [][NextCrash]_vars

\* Workers pushing to and popping from the priority queues, with no crash
\* and no failing call: a method that has started runs to its end, and
\* the workers keep calling pop on every queue.  Pushes stop after MaxPush.
NextLive == \E w \in Workers : PriorityCall(w, PriorityKeys)

FairLive ==
    /\ \A w \in Workers :
           WF_vars(PriorityPush_zset(w) \/ PriorityPop_hget(w)
                       \/ PriorityPop_hdel(w))
    /\ \A key \in PriorityKeys :
           WF_vars(\E w \in Workers, timeout \in Timeouts :
                      PriorityPop_zpop_front(w, key, timeout))

SpecLive == Init /\ [][NextLive]_vars /\ FairLive

\* ------------------------------------------------------------ properties
Idle == \A w \in Workers : pc[w] = "idle"

\* How often request r was pushed to / returned by a pop of the queue with
\* history h.
Count(h, op, r) == Cardinality({i \in DOMAIN h : h[i] = Event(op, r)})

\* No other priority queue has been used.
OnlyQueueUsed(key) == \A o \in PriorityKeys \ {key} : hist[o] = <<>>

\* C1: at-most-once delivery on a priority queue (used alone, by any number
\* of workers): no request is returned by more pops than it was pushed, so
\* a request pushed once is returned at most once and a request never
\* pushed is never returned.
C1_AtMostOnce ==
    \A key \in PriorityKeys :
        OnlyQueueUsed(key) =>
            \A r \in Requests :
                Count(hist[key], "pop", r) <= Count(hist[key], "push", r)

\* Both workers have made their pop and are back.
PopsDone == \A w \in Workers : pc[w] = "idle" /\ ret[w] # NoCall

\* The request the queue held at the start.
Enqueued == {hist[k][1].request : k \in {x \in PriorityKeys : hist[x] # <<>>}}

\* C2: a priority queue holds one request and two workers pop concurrently:
\* no pop raises, and once both have returned, one has the request and the
\* other has None.
C2_ExactlyOneReceives ==
    /\ \A w \in Workers : ret[w].kind # "error"
    /\ PopsDone =>
           \E w \in Workers :
               /\ ret[w].kind = "request"
               /\ ret[w].request \in Enqueued
               /\ \A o \in Workers \ {w} : ret[o] = ReturnedNone("pop")

\* Both pops have returned and one of them returned the request.
C2_Witness ==
    /\ PopsDone
    /\ \E w \in Workers : ret[w].kind = "request"

\* The pushes to priority queues, as (key, position in its history).
PriorityPushes ==
    UNION {{<<k, i>> : i \in {j \in DOMAIN hist[k] : hist[k][j].op = "push"}} :
              k \in PriorityKeys}

DistinctFingerprints ==
    \A a, b \in PriorityPushes :
        a # b => hist[a[1]][a[2]].request.fp # hist[b[1]][b[2]].request.fp

\* The requests pushed and not yet popped before the i-th call of history h.
InQueue(h, i) ==
    {h[j].request : j \in {x \in 1..(i - 1) : h[x].op = "push"}}
        \ {h[j].request : j \in {x \in 1..(i - 1) : h[x].op = "pop"}}

\* C3: priority order.  When the requests pushed to the priority queues have
\* pairwise distinct fingerprints and calls do not overlap, every pop
\* returns a request that is in the queue and whose priority is the highest
\* of the requests then in the queue.
C3_PriorityOrder ==
    DistinctFingerprints =>
        \A key \in PriorityKeys : \A i \in DOMAIN hist[key] :
            hist[key][i].op = "pop" =>
                /\ hist[key][i].request \in InQueue(hist[key], i)
                /\ \A o \in InQueue(hist[key], i) :
                       o.pri <= hist[key][i].request.pri

\* The lower priority was pushed first and the pop returned the higher one.
C3_Witness ==
    \E key \in PriorityKeys :
        /\ Len(hist[key]) = 3
        /\ hist[key][1].op = "push" /\ hist[key][2].op = "push"
        /\ hist[key][1].request.fp # hist[key][2].request.fp
        /\ hist[key][1].request.pri < hist[key][2].request.pri
        /\ hist[key][3] = Event("pop", hist[key][2].request)

RECURSIVE FifoReplay(_, _)
FifoReplay(h, q) ==
    IF h = <<>> THEN TRUE
    ELSE LET e == Head(h)
         IN CASE e.op = "push" -> FifoReplay(Tail(h), Append(q, e.request))
              [] e.op = "pop" -> /\ q # <<>>
                                 /\ Head(q) = e.request
                                 /\ FifoReplay(Tail(h), Tail(q))
              [] OTHER -> FifoReplay(Tail(h), <<>>)

\* C4: FIFO order.  Replaying the calls that took effect on a FIFO key,
\* under any interleaving of the workers, every pop returns the request
\* whose push took effect first among those still in the list.
C4_FifoOrder == \A key \in FifoKeys : FifoReplay(hist[key], <<>>)

\* Two different requests pushed, then both popped.
PushPushPopPop(h) ==
    /\ Len(h) = 4
    /\ h[1].op = "push" /\ h[2].op = "push"
    /\ h[3].op = "pop" /\ h[4].op = "pop"
    /\ h[1].request # h[2].request

\* Two different requests went through a FIFO key.
C4_Witness == \E key \in FifoKeys : PushPushPopPop(hist[key])

RECURSIVE LifoReplay(_, _)
LifoReplay(h, st) ==
    IF h = <<>> THEN TRUE
    ELSE LET e == Head(h)
         IN CASE e.op = "push" -> LifoReplay(Tail(h), <<e.request>> \o st)
              [] e.op = "pop" -> /\ st # <<>>
                                 /\ Head(st) = e.request
                                 /\ LifoReplay(Tail(h), Tail(st))
              [] OTHER -> LifoReplay(Tail(h), <<>>)

\* C5: LIFO order.  Replaying the calls that took effect on a LIFO key,
\* every pop returns the most recently pushed request not yet popped.
C5_LifoOrder == \A key \in LifoKeys : LifoReplay(hist[key], <<>>)

\* Two different requests went through a LIFO key.
C5_Witness == \E key \in LifoKeys : PushPushPopPop(hist[key])

\* The queue at key was touched by pushes and pops only.
Untouched(key) ==
    /\ CountOps(hist[key], "clear") = 0
    /\ key \in PriorityKeys => OnlyQueueUsed(key)

LenCall(w, key) ==
    FifoLen(w, key) \/ LifoLen(w, key) \/ PriorityLen(w, key)

\* C6: length accounting.  On a queue that was never cleared (a priority
\* queue: and is the only priority queue in use), with calls not
\* overlapping, __len__ returns the number of pushes minus the number of
\* pops that returned a request.
C6_LengthAccounting ==
    [][\A w \in Workers, key \in Keys :
          (LenCall(w, key) /\ Untouched(key)) =>
              ret'[w] = ReturnedInt("len", CountOps(hist[key], "push")
                                             - CountOps(hist[key], "pop"))]_vars

\* What __len__ of the queue at key reads.
Length(key) ==
    IF key \in PriorityKeys THEN zsize(sorted, key) ELSE qsize(queue, key)

\* C7: clear empties the queue.  After clear() on any queue, the structure
\* its __len__ and pop read (the list; for a priority queue the sorted set)
\* is empty.
C7_ClearEmpties ==
    [][\A w \in Workers, key \in Keys :
          Clear(w, key) => Length(key)' = 0]_vars

\* C8: clear's frame.  clear() on one key changes no other key's list or
\* sorted set and not the payload table; a payload-table entry appears only
\* in the hset step of PriorityQueue.push and disappears only in the hdel
\* step of PriorityQueue.pop.
C8_ClearFrame ==
    [][/\ \A w \in Workers, key \in Keys :
              Clear(w, key) =>
                  /\ bodies' = bodies
                  /\ \A o \in Keys \ {key} :
                         queue'[o] = queue[o] /\ sorted'[o] = sorted[o]
       /\ \A f \in Fps :
              /\ (bodies[f] = NoData /\ bodies'[f] # NoData) =>
                     \E w \in Workers, key \in PriorityKeys, r \in Requests :
                         PriorityPush_hset(w, key, r)
              /\ (bodies[f] # NoData /\ bodies'[f] = NoData) =>
                     \E w \in Workers : PriorityPop_hdel(w)
       /\ (\E w \in Workers, key \in Keys :
               \/ Clear(w, key)
               \/ LenCall(w, key)
               \/ \E r \in Requests : FifoPush(w, key, r) \/ LifoPush(w, key, r)
               \/ \E t \in Timeouts : FifoPop(w, key, t) \/ LifoPop(w, key, t))
              => bodies' = bodies]_vars

\* A clear has just deleted a list while another key holds a sorted set and
\* the payload table holds an entry.
C8_Witness ==
    /\ \E w \in Workers : ret[w] = ReturnedNone("clear")
    /\ \E key \in Keys :
           hist[key] # <<>> /\ hist[key][Len(hist[key])].op = "clear"
    /\ \E key \in Keys : sorted[key] # {}
    /\ \E f \in Fps : bodies[f] # NoData

PopOnEmpty(w, key, timeout) ==
    \/ queue[key] = <<>> /\ FifoPop(w, key, timeout)
    \/ queue[key] = <<>> /\ LifoPop(w, key, timeout)
    \/ sorted[key] = {} /\ PriorityPop_zpop_front(w, key, timeout)

\* C9: pop on an empty queue, whatever the timeout, returns None in that
\* one step, raises nothing, and changes nothing in the server.
C9_PopOnEmpty ==
    [][\A w \in Workers, key \in Keys, timeout \in Timeouts :
          PopOnEmpty(w, key, timeout) =>
              /\ ret'[w] = ReturnedNone("pop")
              /\ pc'[w] = "idle"
              /\ store' = store]_vars

\* A pop has returned None from a queue that was drained before.
C9_Witness ==
    /\ \E w \in Workers : pc[w] = "idle" /\ ret[w] = ReturnedNone("pop")
    /\ \E key \in Keys :
           /\ hist[key] # <<>>
           /\ hist[key][Len(hist[key])].op = "pop"
           /\ Length(key) = 0

Members(key) == {e.member : e \in sorted[key]}

\* C10: no payload leak.  With pushes, pops and clears running to their end,
\* whenever no call is in progress every fingerprint that has an entry in
\* the payload table is a member of some priority queue's sorted set.
C10_NoOrphanPayload ==
    Idle =>
        \A f \in Fps :
            bodies[f] # NoData => \E key \in PriorityKeys : f \in Members(key)

\* Pushes, a pop and a clear have run, and a payload is still in the table.
C10_Witness ==
    /\ Idle
    /\ \E f \in Fps : bodies[f] # NoData
    /\ \E w \in Workers : ret[w] = ReturnedNone("clear")
    /\ \E key \in PriorityKeys : CountOps(hist[key], "pop") > 0

\* The index entry the zset of worker w's push writes.
PushedEntry(w) == [member |-> fingerprint[w], score |-> score[w]]

\* C11: push never silently drops.  In every discipline a push whose server
\* call fails raises the error to its caller at that call and makes no
\* further call (a step that does not end idle with the error raised, or
\* that changes a sorted set after a failed qpush_front or hset, is not
\* such a push); and a push that returns None has put the request at the
\* front of the list, or its fingerprint and score into the sorted set.
C11_PushSurfacesError ==
    [][\A w \in Workers :
          /\ (ret'[w] # Raised("push") \/ pc'[w] # "idle" \/ sorted' # sorted)
                 => \A key \in Keys, r \in Requests :
                        /\ ~FifoPush_error(w, key, r)
                        /\ ~LifoPush_error(w, key, r)
                        /\ ~PriorityPush_hset_error(w, key, r)
          /\ (ret'[w] # Raised("push") \/ pc'[w] # "idle")
                 => ~PriorityPush_zset_error(w)
          /\ ret'[w] = ReturnedNone("push")
                 => /\ \A key \in Keys, r \in Requests :
                           /\ (FifoPush(w, key, r) \/ LifoPush(w, key, r)
                                   \/ FifoPush_error(w, key, r)
                                   \/ LifoPush_error(w, key, r))
                                  => queue'[key]
                                         = <<_encode_request(r)>> \o queue[key]
                           /\ ~PriorityPush_hset(w, key, r)
                           /\ ~PriorityPush_hset_error(w, key, r)
                    /\ (PriorityPush_zset(w) \/ PriorityPush_zset_error(w))
                           => PushedEntry(w) \in sorted'[self_key[w]]]_vars

\* A push has raised after an earlier push went through.
C11_Witness ==
    /\ \E w \in Workers : pc[w] = "idle" /\ ret[w] = Raised("push")
    /\ \E key \in Keys : Length(key) > 0

\* C12: clear is idempotent.  clear() never raises; on a key whose list is
\* empty (just cleared, drained or never used) it changes nothing in the
\* server; and clearing the same key again right after a clear leaves the
\* server as the first clear left it.
C12_ClearIdempotent ==
    [][\A w \in Workers, key \in Keys :
          Clear(w, key) =>
              /\ ret'[w] = ReturnedNone("clear")
              /\ pc'[w] = "idle"
              /\ queue[key] = <<>> => store' = store
              /\ qclear(queue', key) = queue']_vars

\* A clear has returned, the list it was called on is empty after an
\* earlier clear deleted it, and another list still holds a request.
C12_Witness ==
    /\ ret[1] = ReturnedNone("clear")
    /\ \E key \in FifoKeys \cup LifoKeys :
           /\ hist[key] # <<>>
           /\ hist[key][Len(hist[key])].op = "clear"
           /\ queue[key] = <<>>
           /\ \E o \in (FifoKeys \cup LifoKeys) \ {key} : queue[o] # <<>>

\* C13: payload before index.  On a priority queue used alone, under any
\* interleaving of the steps of concurrent pushes and pops, every member of
\* the sorted set has an entry in the payload table, and no pop raises for
\* want of a payload to decode.
C13_PayloadBeforeIndex ==
    \A key \in PriorityKeys :
        OnlyQueueUsed(key) =>
            /\ \A f \in Members(key) : bodies[f] # NoData
            /\ \A w \in Workers : ret[w] # Raised("pop")

\* A pop can reach the payload of fingerprint f: f is a member of a sorted
\* set, or a pop has taken f from one and has not read its payload yet.
CanReach(f) ==
    \/ \E key \in PriorityKeys : f \in Members(key)
    \/ \E w \in Workers : pc[w] = "pop_hget" /\ fingerprint[w] = f

\* C14: crash during a priority push.  When a worker crashes after the hset
\* and before the zset of a push, the payload table holds an entry for the
\* fingerprint, no pop can reach that entry, every sorted set (so every
\* length) is as before the crash, and no sorted-set member that had a
\* payload has lost it.
C14_PushCrashLeak ==
    [][\A w \in Workers :
          PriorityPush_crash_before_zset(w) =>
              /\ \A f \in Fps :
                     f = fingerprint[w] => bodies'[f] # NoData /\ ~CanReach(f)'
              /\ sorted' = sorted
              /\ \A key \in PriorityKeys : Length(key)' = Length(key)
              /\ \A f \in Fps :
                     (CanReach(f) /\ bodies[f] # NoData) => bodies'[f] # NoData
      ]_vars

\* How many events `op` of request r the histories hold, over every key.
Total(op, r) ==
    Cardinality(UNION {{<<k, i>> : i \in {j \in DOMAIN hist[k] :
                                            hist[k][j] = Event(op, r)}} :
                          k \in PriorityKeys})

\* C15: crash during a priority pop.  A crash after zpop_front and before
\* hget, or after hget and before hdel, leaves the payload table as it is
\* (the payload stays) and does not put the index entry back; and once the
\* index entry of an item was taken by a pop that crashed before hget, no
\* pop of any worker returns that item: a pop that returns it afterwards
\* returns another push of it.
C15_PopCrashLoses ==
    [][/\ \A w \in Workers :
              (PriorityPop_crash_before_hget(w)
                  \/ PriorityPop_crash_before_hdel(w))
                 => bodies' = bodies /\ sorted' = sorted
       /\ \A r \in Requests :
              (Total("crash_zpop", r) > 0
                  /\ Total("pop", r)' > Total("pop", r))
                 => Total("pop", r)' + Total("crash_zpop", r)
                        <= Total("push", r)]_vars

\* C16: a decode failure loses the item.  With calls that do not overlap:
\* when FifoQueue.pop or LifoQueue.pop raises, the list is one entry
\* shorter and the entry gone is the undecodable one at the end pop takes
\* from; when PriorityQueue.pop raises, its zpop_front step made the sorted
\* set one member smaller, and after the raise the fingerprint is neither a
\* member of that sorted set nor a field of the payload table, so that no
\* later pop can return the item.
C16_DecodeFailureLoses ==
    [][\A w \in Workers, key \in Keys, t \in Timeouts :
          /\ (FifoPop(w, key, t) /\ ret'[w] = Raised("pop"))
                 => /\ qsize(queue', key) = qsize(queue, key) - 1
                    /\ \E e \in {queue[key][qsize(queue, key)]} :
                           DecodeRaises(e) /\ queue[key] = queue'[key] \o <<e>>
          /\ (LifoPop(w, key, t) /\ ret'[w] = Raised("pop"))
                 => /\ qsize(queue', key) = qsize(queue, key) - 1
                    /\ \E e \in {queue[key][1]} :
                           DecodeRaises(e) /\ queue[key] = <<e>> \o queue'[key]
          /\ (PriorityPop_zpop_front(w, key, t) /\ sorted[key] # {})
                 => zsize(sorted', key) = zsize(sorted, key) - 1
          /\ (PriorityPop_hdel(w) /\ ret'[w] = Raised("pop"))
                 => \A f \in Fps, k \in PriorityKeys :
                        (f = fingerprint[w] /\ k = self_key[w])
                           => /\ DecodeRaises(data[w])
                              /\ bodies'[f] = NoData
                              /\ f \notin Members(k)']_vars

\* A pop has raised on a payload another serializer wrote, and a request
\* pushed since is still in a queue.
C16_Witness ==
    /\ pc[1] = "idle"
    /\ ret[1] = Raised("pop")
    /\ \E key \in Keys :
           /\ CountOps(hist[key], "push") = 2
           /\ CountOps(hist[key], "pop") = 0
           /\ Length(key) = 1

\* The history of key starts with two pushes of the same fingerprint and
\* holds no other push.
TwoPushesSameFingerprint(key) ==
    /\ OnlyQueueUsed(key)
    /\ Len(hist[key]) >= 2
    /\ hist[key][1].op = "push"
    /\ hist[key][2].op = "push"
    /\ hist[key][1].request.fp = hist[key][2].request.fp
    /\ CountOps(hist[key], "push") = 2

\* C17: a push of a fingerprint the priority queue already holds is an
\* upsert.  After push(w1), push(w2) with equal fingerprints and no pop in
\* between (calls not overlapping, no other queue in use): the payload
\* table holds w2's payload under the fingerprint, the sorted set has the
\* one member with score -priority(w2), the length is 1 as after the first
\* push; the next pop returns w2 and no other pop returns anything, so w1
\* is never returned.
C17_Upsert ==
    \A key \in PriorityKeys :
        TwoPushesSameFingerprint(key) =>
            /\ (Len(hist[key]) = 2 /\ Idle) =>
                   /\ bodies[hist[key][2].request.fp]
                          = _encode_request(hist[key][2].request)
                   /\ sorted[key]
                          = {[member |-> hist[key][2].request.fp,
                              score |-> -hist[key][2].request.pri]}
                   /\ Length(key) = 1
            /\ Len(hist[key]) >= 3 =>
                   /\ hist[key][3] = Event("pop", hist[key][2].request)
                   /\ Len(hist[key]) = 3
                   /\ Idle => Length(key) = 0

\* w1 and w2 differ in priority, and the pop after them returned w2.
C17_Witness ==
    \E key \in PriorityKeys :
        /\ TwoPushesSameFingerprint(key)
        /\ hist[key][1].request.pri # hist[key][2].request.pri
        /\ Len(hist[key]) = 3
        /\ hist[key][3].op = "pop"
        /\ Idle

\* Two different priority queues have had one push each, of one fingerprint.
OnePushEach(k1, k2) ==
    /\ k1 # k2
    /\ CountOps(hist[k1], "push") = 1
    /\ CountOps(hist[k2], "push") = 1
    /\ hist[k1][1].request.fp = hist[k2][1].request.fp

\* C18: one fingerprint in two priority queues (calls not overlapping).
\* The push to the second queue overwrites the payload the first push
\* wrote.  With the fingerprint a member of both sorted sets, the first pop,
\* from either queue, returns the payload then in the table (the later
\* one), deletes the table entry and leaves the other queue's member in
\* place.  The pop on the other queue then takes that member, finds no
\* payload and returns no request.
C18_CrossQueueReuse ==
    [][\A w \in Workers, k1 \in PriorityKeys, k2 \in PriorityKeys :
          /\ \A r \in Requests :
                 (/\ k1 # k2
                  /\ hist[k1] = <<>>
                  /\ CountOps(hist[k2], "push") = 1
                  /\ hist[k2][1].request.fp = r.fp
                  /\ PriorityPush_hset(w, k1, r))
                     => bodies'[r.fp] = _encode_request(r)
          /\ \A f \in Fps :
                 (/\ pc[w] = "pop_hdel"
                  /\ self_key[w] = k1
                  /\ fingerprint[w] = f
                  /\ OnePushEach(k1, k2)
                  /\ PriorityPop_hdel(w))
                     => /\ (Len(hist[k1]) = 1 /\ f \in Members(k2))
                               => /\ bodies[f] # NoData
                                  /\ ret'[w] = Returned("pop",
                                                 _decode_request(bodies[f]))
                                  /\ bodies'[f] = NoData
                                  /\ sorted'[k1] = {}
                                  /\ f \in Members(k2)'
                        /\ (Len(hist[k1]) = 1 /\ sorted[k2] = {}
                                /\ bodies[f] = NoData)
                               => /\ ret'[w].kind # "request"
                                  /\ sorted'[k1] = {}
                                  /\ hist' = hist]_vars

\* Both queues were pushed to once and popped once: one pop returned a
\* request, the other raised, and nothing is left in the server.
C18_Witness ==
    /\ Idle
    /\ OnePushEach("pq1", "pq2")
    /\ hist["pq1"][1].request # hist["pq2"][1].request
    /\ Len(hist["pq1"]) + Len(hist["pq2"]) = 3
    /\ ret[1] = Raised("pop")
    /\ sorted["pq1"] = {} /\ sorted["pq2"] = {}

\* How many entries of the list at key are the bytes of request r.
InList(key, r) ==
    Cardinality({i \in DOMAIN queue[key] : queue[key][i] = _encode_request(r)})

\* C19: exactly-once delivery on the list queues.  On a FIFO or LIFO key
\* that was never cleared, under any interleaving of the workers' pushes
\* and pops, no pop raises, and for every request the pushes of it equal
\* the pops that returned it plus its entries still in the list: nothing
\* is returned twice or lost, and once the list is drained every push has
\* been returned by exactly one pop.
C19_ExactlyOnceList ==
    /\ \A w \in Workers : ret[w].kind # "error"
    /\ \A key \in FifoKeys \cup LifoKeys :
           CountOps(hist[key], "clear") = 0 =>
               /\ \A r \in Requests :
                      Count(hist[key], "push", r)
                          = Count(hist[key], "pop", r) + InList(key, r)
               /\ qsize(queue, key) = CountOps(hist[key], "push")
                                          - CountOps(hist[key], "pop")

\* Of two pushes to a list key one has been returned by a pop and the
\* other is still in the list.
C19_Witness ==
    \E key \in FifoKeys \cup LifoKeys :
        /\ CountOps(hist[key], "clear") = 0
        /\ CountOps(hist[key], "push") = 2
        /\ CountOps(hist[key], "pop") = 1
        /\ qsize(queue, key) = 1

\* The pushes whose fingerprint no other push has.
UniquePushes ==
    {a \in PriorityPushes :
        \A b \in PriorityPushes :
            a # b => hist[a[1]][a[2]].request.fp # hist[b[1]][b[2]].request.fp}

\* Every sorted set is empty, no call is running, and every request pushed
\* with a fingerprint of its own has been returned by a pop of its queue.
Drained ==
    /\ Idle
    /\ \A key \in PriorityKeys : sorted[key] = {}
    /\ \A a \in UniquePushes :
           Count(hist[a[1]], "pop", hist[a[1]][a[2]].request) = 1

\* C20: drain liveness.  When pushes have stopped and the workers keep
\* calling pop (weakly fair, no crash, no failing call), the priority
\* queues reach a state from which on every sorted set is empty, so that
\* every pop returns None, and every request pushed with a fingerprint of
\* its own has been returned by a pop.
C20_Drain == <>[]Drained

\* Two requests with different fingerprints were pushed to one queue and
\* both were returned; the queues are empty.
C20_Witness ==
    /\ Drained
    /\ \E key \in PriorityKeys :
           /\ CountOps(hist[key], "push") = 2
           /\ CountOps(hist[key], "pop") = 2
           /\ hist[key][1].request.fp # hist[key][2].request.fp

====
